---------------------------- MODULE Spec2Model ----------------------------
(***************************************************************************)
(* Little Alchemy 2 Text MCP server: the tool handlers of mcp_server.py    *)
(* (start_game, get_game_state, make_move, list_active_sessions, end_game, *)
(* get_attempt_logs, debug_logging_status) over the two process-wide maps  *)
(* game_sessions and attempt_logs, and the targeted environment's step.    *)
(*                                                                         *)
(* The base environment (env/little_alchemy_2_text/base.py) and the        *)
(* open-ended environment are not among the sources; what they do (the     *)
(* recipe book, the table, past_valid_combs / past_invalid_combs, _step,   *)
(* _parse_actions) is modelled from the specification's Recipe Resolver    *)
(* and Combination Ledger and from the way mcp_server.py reads them.       *)
(***************************************************************************)
EXTENDS Integers, Sequences, FiniteSets, TLC

VARIABLES
    game_sessions,   \* session_id -> session dictionary (mcp_server.py:43)
    attempt_logs,    \* session_id -> list of attempt-log entries (mcp_server.py:46)
    lastCall,        \* the tool call the last step made and the response it
                     \* returned (tool "none": the step was not a call)
    now              \* the wall clock, what time.time() returns

vars == <<game_sessions, attempt_logs, lastCall, now>>

---------------------------------------------------------------------------
(* Bounds of the model *)

\* Python's None
None == "None"

\* largest max_rounds a caller asks for
MaxRounds == 2

\* session identifiers callers use: one session, and two side by side
SoloIds == {"s1"}

SessionIds == {"s1", "s2"}

\* item names as callers type them (before strip().lower())
RawNames == {"air", "fire", " Fire", "energy"}

\* goal items the targeted environment may draw
Goals == {"energy", "mud"}

\* the goal an environment of the given mode may hold, among `goals`
GoalsOf(game_mode, goals) == IF game_mode = "targeted" THEN goals ELSE {None}

\* the inputs of the two-session specification
MultiFirst == {"air"}

MultiSecond == {"air", "fire"}

MultiGoals == {"energy"}

\* latest reading of the wall clock, in ticks
MaxTime == 3

\* round budget and item names of the specification of long attempt logs
LogRounds == 6

LogNames == {"air", "fire"}

\* round budget of the specification with a running clock, and the longest
\* time a move takes
TimeRounds == 3

MaxElapsed == 1

\* round budget of the specification of the read operations (more rounds
\* than the summary shows entries), and the format argument's values
ReadRounds == 6

Formats == {"summary", "json", "csv"}

\* game_mode argument values
GameModes == {"open-ended", "targeted"}

\* where start_game may meet an exception: nowhere, in create_game_session,
\* or in get_game_state once the session is registered
StartFailures == {"no", "create", "state"}

\* where make_move may meet an exception: nowhere; in env.step (an exception
\* other than ValueError and IndexError); in env.step with a ValueError or
\* IndexError, once or again in the fallback call; in log_attempt
MoveFailures == {"no", "step", "step_index", "step_index_twice", "log"}

\* the failures of make_move the one-session and two-session specifications draw
StepFailures == {"no", "step"}

---------------------------------------------------------------------------
(* Program constants *)

\* the schema's lower limit of max_rounds
MinRounds == 1

\* how many entries the log summary shows (logs[-5:])
RECENT_ATTEMPTS == 5

\* rewards of the targeted environment
NO_RECIPE_PENALTY == 0

GOAL_REWARD == 1

SUBGOAL_REWARD == 1

\* the four primordial items every game starts with
BaseInventory == <<"air", "earth", "fire", "water">>

---------------------------------------------------------------------------
(* Helpers on sequences *)

SeqToSet(s) == {s[i] : i \in 1..Len(s)}

\* Python's `x in list`
Contains(s, x) == \E i \in 1..Len(s) : s[i] = x

\* Python's list.index(x): the first position of x; 0 stands for ValueError
ListIndex(s, x) ==
    IF Contains(s, x)
    THEN CHOOSE i \in 1..Len(s) : s[i] = x /\ \A j \in 1..(i - 1) : s[j] # x
    ELSE 0

\* [x for x in s if x not in t]
RECURSIVE NotIn(_, _)
NotIn(s, t) ==
    IF s = <<>> THEN <<>>
    ELSE IF Contains(t, Head(s)) THEN NotIn(Tail(s), t)
    ELSE <<Head(s)>> \o NotIn(Tail(s), t)

\* mutant: the name is stripped of surrounding whitespace, its case is kept
StripLower_StripOnly(raw) ==
    CASE raw = " Fire" -> "Fire"
      [] raw = " air " -> "air"
      [] OTHER         -> raw

\* arguments["item1"].strip().lower()
StripLower(raw) ==
    CASE raw = " Fire" -> "fire"
      [] raw = "Fire"  -> "fire"
      [] raw = "Air"   -> "air"
      [] raw = " air " -> "air"
      [] OTHER         -> raw

\* item.lower() of an inventory item (the recipe book's items are lower case)
Lower(item) == StripLower(item)

---------------------------------------------------------------------------
(* The environment: recipe book, table and ledger (base environment) *)

\* mutant: a recipe is found in one order of its items only
Recipe_Ordered(a, b) ==
    CASE <<a, b>> = <<"air", "fire">>   -> <<"energy">>
      [] <<a, b>> = <<"fire", "fire">>  -> <<"energy">>
      [] <<a, b>> = <<"air", "energy">> -> <<"wind", "heat">>
      [] OTHER                          -> <<>>

\* The Recipe Resolver on an unordered pair: the items it produces, in order
\* (<<>>: no combination).  Two recipes make energy; one makes two items.
Recipe(a, b) ==
    LET pair == {a, b} IN
    CASE pair = {"air", "fire"}   -> <<"energy">>
      [] pair = {"fire"}          -> <<"energy">>
      [] pair = {"air", "energy"} -> <<"wind", "heat">>
      [] OTHER                    -> <<>>

\* the environment after reset(): base table, empty ledger, not done
EnvReset(goal) ==
    [table              |-> BaseInventory,
     past_valid_combs   |-> <<>>,
     past_invalid_combs |-> <<>>,
     done               |-> FALSE,
     goal               |-> goal,
     episode_step       |-> 0]

\* unwrapped_env.get_inventory()
GetInventory(env) == env.table

\* unwrapped_env.index_to_word(idx)
IndexToWord(env, idx) == env.table[idx]

\* `comb in past_valid_combs` (a dict keyed by index tuples, insertion-ordered)
InValid(env, comb) ==
    \E k \in 1..Len(env.past_valid_combs) : env.past_valid_combs[k].comb = comb

\* past_valid_combs[comb]
ValidResult(env, comb) ==
    LET k == CHOOSE k \in 1..Len(env.past_valid_combs) :
                 env.past_valid_combs[k].comb = comb
    IN env.past_valid_combs[k].result

\* `comb in past_invalid_combs`
InInvalid(env, comb) == Contains(env.past_invalid_combs, comb)

\* reward of a step: positive exactly when the recipe exists
StepReward(env, result) ==
    IF result = None THEN NO_RECIPE_PENALTY
    ELSE IF result = env.goal THEN GOAL_REWARD
    ELSE SUBGOAL_REWARD

\* _parse_actions: selection is None when an item is not on the table or the
\* pair was tried before
ParseRepeat(env, item1, item2) ==
    LET comb == <<ListIndex(env.table, item1), ListIndex(env.table, item2)>>
        rev  == <<comb[2], comb[1]>>
    IN \/ comb[1] = 0 \/ comb[2] = 0
       \/ InValid(env, comb) \/ InValid(env, rev)
       \/ InInvalid(env, comb) \/ InInvalid(env, rev)

\* mutant: every produced item is put on the table, owned or not
BaseStep_AppendsAll(env, item1, item2) ==
    LET comb     == <<ListIndex(env.table, item1), ListIndex(env.table, item2)>>
        produced == Recipe(item1, item2)
        result   == IF produced = <<>> THEN None ELSE produced[1]
        table2   == env.table \o produced
        env2     == IF result = None
                    THEN [env EXCEPT !.past_invalid_combs = Append(@, comb), !.episode_step = @ + 1]
                    ELSE [env EXCEPT !.table = table2,
                                     !.past_valid_combs = Append(@, [comb |-> comb, result |-> ListIndex(table2, result)]),
                                     !.episode_step = @ + 1]
    IN [env |-> env2, result |-> result, reward |-> <<StepReward(env, result)>>]

\* mutant: a pair that combines is also filed as invalid
BaseStep_FilesBoth(env, item1, item2) ==
    LET comb     == <<ListIndex(env.table, item1), ListIndex(env.table, item2)>>
        produced == Recipe(item1, item2)
        result   == IF produced = <<>> THEN None ELSE produced[1]
        table2   == env.table \o NotIn(produced, env.table)
        env2     == IF result = None
                    THEN [env EXCEPT !.past_invalid_combs = Append(@, comb), !.episode_step = @ + 1]
                    ELSE [env EXCEPT !.table = table2,
                                     !.past_invalid_combs = Append(@, comb),
                                     !.past_valid_combs = Append(@, [comb |-> comb, result |-> ListIndex(table2, result)]),
                                     !.episode_step = @ + 1]
    IN [env |-> env2, result |-> result, reward |-> <<StepReward(env, result)>>]

\* base _step(recipe, new_comb, actions): resolve the pair, record it in the
\* ledger, add every produced item not yet owned to the table
BaseStep(env, item1, item2) ==
    LET comb     == <<ListIndex(env.table, item1), ListIndex(env.table, item2)>>
        produced == Recipe(item1, item2)
        result   == IF produced = <<>> THEN None ELSE produced[1]
        table2   == env.table \o NotIn(produced, env.table)
        env2     == IF result = None
                    THEN [env EXCEPT !.past_invalid_combs = Append(@, comb),
                                     !.episode_step = @ + 1]
                    ELSE [env EXCEPT !.table = table2,
                                     !.past_valid_combs =
                                         Append(@, [comb   |-> comb,
                                                    result |-> ListIndex(table2, result)]),
                                     !.episode_step = @ + 1]
    IN [env |-> env2, result |-> result, reward |-> <<StepReward(env, result)>>]

\* mutant: the result is compared with the goal in either mode
GoalReached_AnyMode(targeted, result, goal) == result = goal

\* mutant: the goal does not end the game
GoalReached_Never(targeted, result, goal) == FALSE

\* whether a step's result ends the targeted game (targeted/env.py:85)
GoalReached(targeted, result, goal) == targeted /\ result = goal

\* mutant: every finished targeted game is said to have found its target
Summarise_Always(env, targeted) ==
    IF targeted THEN "discovered" ELSE "open_ended"

\* summarise() of the targeted environment (targeted/env.py:90-94): it reads
\* the environment's own done flag, which only line 85-86 sets; the
\* open-ended environment's summarise has no target to report
Summarise(env, targeted) ==
    IF targeted
    THEN (IF env.done THEN "discovered" ELSE "not_discovered")
    ELSE "open_ended"

\* env.step(action) of the targeted environment (and of the open-ended one,
\* which has no goal): the environment afterwards, reward, done and
\* info["repeat"]; the None that line 78 returns for done is falsy
EnvStep(env, targeted, item1, item2) ==
    IF ParseRepeat(env, item1, item2)
    THEN [env |-> env, reward |-> <<>>, done |-> FALSE, repeat |-> TRUE]
    ELSE LET st   == BaseStep(env, item1, item2)
             done == st.env.done \/ GoalReached(targeted, st.result, env.goal)
         IN [env    |-> [st.env EXCEPT !.done = done],
             reward |-> st.reward,
             done   |-> done,
             repeat |-> FALSE]

---------------------------------------------------------------------------
(* mcp_server.py: the attempt log *)

\* get_current_streak: type and length of the run ending at the log's tail
RECURSIVE StreakLength(_, _, _)
StreakLength(logs, i, type) ==
    IF i < 1 THEN 0
    ELSE IF logs[i].Success = (type = "success")
         THEN 1 + StreakLength(logs, i - 1, type)
         ELSE 0

\* mutant: the backward count does not stop at the first other outcome
GetCurrentStreak_NoBreak(logs) ==
    IF logs = <<>> THEN [type |-> "none", length |-> 0]
    ELSE [type   |-> IF logs[Len(logs)].Success THEN "success" ELSE "failure",
          length |-> Cardinality({i \in 1..Len(logs) : logs[i].Success = logs[Len(logs)].Success})]

GetCurrentStreak(logs) ==
    IF logs = <<>> THEN [type |-> "none", length |-> 0]
    ELSE LET type == IF logs[Len(logs)].Success THEN "success" ELSE "failure"
         IN [type |-> type, length |-> 1 + StreakLength(logs, Len(logs) - 1, type)]

\* mutant: the log is scanned from its head, to the first success
GetTimeSinceLastSuccess_First(logs, current_time) ==
    IF \E i \in 1..Len(logs) : logs[i].Success
    THEN LET first == CHOOSE i \in 1..Len(logs) :
                          /\ logs[i].Success
                          /\ \A j \in 1..(i - 1) : ~ logs[j].Success
         IN <<current_time - logs[first]._timestamp>>
    ELSE <<>>

\* get_time_since_last_success: current_time less the _timestamp of the last
\* entry with Success, scanning from the tail; <<>> stands for None
GetTimeSinceLastSuccess(logs, current_time) ==
    IF \E i \in 1..Len(logs) : logs[i].Success
    THEN LET last == CHOOSE i \in 1..Len(logs) :
                         /\ logs[i].Success
                         /\ \A j \in (i + 1)..Len(logs) : ~ logs[j].Success
         IN <<current_time - logs[last]._timestamp>>
    ELSE <<>>

\* mutant: an entry matches as soon as it shares one element with the pair
IsNovelCombination_SharedElement(logs, element1, element2) ==
    ~ \E i \in 1..Len(logs) :
        \/ Lower(logs[i].Element_1) \in {Lower(element1), Lower(element2)}
        \/ Lower(logs[i].Element_2) \in {Lower(element1), Lower(element2)}

\* mutant: only the ordering as given is looked for
IsNovelCombination_Ordered(logs, element1, element2) ==
    ~ \E i \in 1..Len(logs) :
        /\ Lower(logs[i].Element_1) = Lower(element1)
        /\ Lower(logs[i].Element_2) = Lower(element2)

\* is_novel_combination: no earlier entry has the pair, in either order
IsNovelCombination(logs, element1, element2) ==
    ~ \E i \in 1..Len(logs) :
        \/ /\ Lower(logs[i].Element_1) = Lower(element1)
           /\ Lower(logs[i].Element_2) = Lower(element2)
        \/ /\ Lower(logs[i].Element_1) = Lower(element2)
           /\ Lower(logs[i].Element_2) = Lower(element1)

\* mutant: numbering from 0
AttemptNumber_ZeroBased(logs) == Len(logs)

\* len(attempt_logs.get(session_id, [])) + 1
AttemptNumber(logs) == Len(logs) + 1

\* attempt_logs.get(session_id, [])
LogsOf(session_id) ==
    IF session_id \in DOMAIN attempt_logs THEN attempt_logs[session_id] ELSE <<>>

\* log_attempt: the entry appended to the session's list, without its caller's
\* free text (Reasoning_Explanation) and the _datetime rendering of _timestamp;
\* timestamp is what time.time() returns inside log_attempt
LogEntry(session_id, attempt_number, element1, element2, success, result_element, inventory_size_before, is_novel, streak, time_since_last_success, timestamp) ==
    [Session_ID            |-> session_id,
     Attempt_Number        |-> attempt_number,
     Element_1             |-> element1,
     Element_2             |-> element2,
     Success               |-> success,
     Result_Element        |-> result_element,
     Inventory_Size_Before |-> inventory_size_before,
     Is_Novel_Combination  |-> is_novel,
     Current_Streak_Type   |-> streak.type,
     Current_Streak_Length |-> streak.length,
     Time_Since_Last_Success |-> time_since_last_success,
     _timestamp            |-> timestamp]

\* mutant: the session's list is started anew on every call
LogAttempt_Resets(session_id, entry) ==
    [s \in DOMAIN attempt_logs \cup {session_id} |->
         IF s = session_id THEN <<entry>> ELSE attempt_logs[s]]

\* mutant: the entry is appended to the log of every session that has one
LogAttempt_AllSessions(session_id, entry) ==
    [s \in DOMAIN attempt_logs \cup {session_id} |->
         IF s \in DOMAIN attempt_logs THEN Append(attempt_logs[s], entry) ELSE <<entry>>]

\* attempt_logs after log_attempt(session_id, ...)
LogAttempt(session_id, entry) ==
    IF session_id \in DOMAIN attempt_logs
    THEN [attempt_logs EXCEPT ![session_id] = Append(@, entry)]
    ELSE [s \in DOMAIN attempt_logs \cup {session_id} |->
              IF s = session_id THEN <<entry>> ELSE attempt_logs[s]]

\* attempt_logs after a log_attempt that raised while building or appending
\* its entry: lines 139-140 have already given the session a list
LogAttemptRaised(session_id) ==
    IF session_id \in DOMAIN attempt_logs
    THEN attempt_logs
    ELSE [s \in DOMAIN attempt_logs \cup {session_id} |->
              IF s = session_id THEN <<>> ELSE attempt_logs[s]]

\* the summary's counts: len(logs), successful_attempts, failed_attempts
LogCounts(logs) ==
    LET successful_attempts == {i \in 1..Len(logs) : logs[i].Success}
        failed_attempts     == {i \in 1..Len(logs) : ~ logs[i].Success}
    IN <<Len(logs), Cardinality(successful_attempts), Cardinality(failed_attempts)>>

\* logs[-5:]
RecentAttempts(logs) ==
    IF Len(logs) <= RECENT_ATTEMPTS THEN logs ELSE SubSeq(logs, Len(logs) - RECENT_ATTEMPTS + 1, Len(logs))

---------------------------------------------------------------------------
(* mcp_server.py: sessions *)

\* mutant: the new session counts its creation as a round played
CreateGameSession_RoundPlayed(targeted, max_rounds, goal) ==
    [env           |-> EnvReset(goal),
     rounds_played |-> 1,
     max_rounds    |-> max_rounds,
     done          |-> FALSE,
     targeted      |-> targeted]

\* create_game_session: the session dictionary; goal is the task the targeted
\* environment drew on reset (None in open-ended mode)
CreateGameSession(targeted, max_rounds, goal) ==
    [env           |-> EnvReset(goal),
     rounds_played |-> 0,
     max_rounds    |-> max_rounds,
     done          |-> FALSE,
     targeted      |-> targeted]

\* [item.lower() for item in unwrapped_env.get_inventory()]
LowerInventory(env) ==
    [i \in 1..Len(GetInventory(env)) |-> Lower(GetInventory(env)[i])]

\* mutant: only the ordering as given is looked up
LedgerLookup_Ordered(env, item1, item2) ==
    LET comb == <<ListIndex(env.table, item1), ListIndex(env.table, item2)>>
    IN [is_repeated_successful |-> InValid(env, comb),
        repeated_result        |-> IF InValid(env, comb) THEN IndexToWord(env, ValidResult(env, comb)) ELSE None,
        is_repeated_failed     |-> InInvalid(env, comb)]

\* mutant: the reverse ordering is looked up among the valid combinations only
LedgerLookup_ForwardInvalid(env, item1, item2) ==
    LET comb == <<ListIndex(env.table, item1), ListIndex(env.table, item2)>>
        rev  == <<comb[2], comb[1]>>
    IN [is_repeated_successful |-> InValid(env, comb) \/ InValid(env, rev),
        repeated_result        |-> IF InValid(env, comb) THEN IndexToWord(env, ValidResult(env, comb))
                                   ELSE IF InValid(env, rev) THEN IndexToWord(env, ValidResult(env, rev))
                                   ELSE None,
        is_repeated_failed     |-> InInvalid(env, comb)]

\* the ledger lookup of make_move: both orderings of the index tuple
LedgerLookup(env, item1, item2) ==
    LET comb == <<ListIndex(env.table, item1), ListIndex(env.table, item2)>>
        rev  == <<comb[2], comb[1]>>
        is_repeated_successful == InValid(env, comb) \/ InValid(env, rev)
        repeated_result ==
            IF InValid(env, comb) THEN IndexToWord(env, ValidResult(env, comb))
            ELSE IF InValid(env, rev) THEN IndexToWord(env, ValidResult(env, rev))
            ELSE None
        is_repeated_failed == InInvalid(env, comb) \/ InInvalid(env, rev)
    IN [is_repeated_successful |-> is_repeated_successful,
        repeated_result        |-> repeated_result,
        is_repeated_failed     |-> is_repeated_failed]

\* mutant: the round is not counted
RoundsAfterMove_Same(rounds_played) == rounds_played

\* session['rounds_played'] += 1
RoundsAfterMove(rounds_played) == rounds_played + 1

\* mutant: > for >=
DoneAfterMove_Strict(session_done, done, rounds_played, max_rounds) ==
    IF done \/ rounds_played > max_rounds THEN TRUE ELSE session_done

\* mutant: the round budget is not looked at
DoneAfterMove_IgnoresRounds(session_done, done, rounds_played, max_rounds) ==
    IF done THEN TRUE ELSE session_done

\* if done or session['rounds_played'] >= session['max_rounds']: done = True
DoneAfterMove(session_done, done, rounds_played, max_rounds) ==
    IF done \/ rounds_played >= max_rounds THEN TRUE ELSE session_done

\* mutant: any reward the step returned counts, also a reward of 0
RewardPositive_NotNone(reward) == reward # <<>>

\* Python's `reward and reward > 0`; a reward is <<>> (None) or <<number>>
RewardPositive(reward) == reward # <<>> /\ reward[1] > 0

\* success flag of the log entry
LogSuccess(repeat, repeated_result, reward, new_items) ==
    IF repeat THEN repeated_result # None
    ELSE RewardPositive(reward) /\ new_items # <<>>

\* ", ".join(new_items) for the items the model's recipes produce together
JoinItems(new_items) ==
    CASE new_items = <<"wind", "heat">> -> "wind, heat"
      [] new_items = <<"heat", "wind">> -> "heat, wind"
      [] OTHER                          -> "joined"

\* result_element of the log entry
LogResult(repeat, repeated_result, reward, new_items) ==
    IF repeat THEN repeated_result
    ELSE IF RewardPositive(reward) /\ new_items # <<>>
         THEN (IF Len(new_items) = 1 THEN new_items[1] ELSE JoinItems(new_items))
         ELSE None

\* which response text make_move builds
MoveResponse(repeat, repeated_result, reward, new_items) ==
    IF repeat
    THEN (IF repeated_result # None THEN "repeat_valid" ELSE "repeat_invalid")
    ELSE IF RewardPositive(reward)
         THEN (IF new_items # <<>> THEN "success" ELSE "success_unidentified")
         ELSE "no_result"

---------------------------------------------------------------------------
(* mcp_server.py: call_tool *)

\* the record of a tool call and of the response it returned; listed is the
\* session list a list_active_sessions call writes, raised the exception a
\* make_move met (among MoveFailures), typed the item names a make_move was
\* given, before strip().lower(), format the format a get_attempt_logs call
\* asked for, summary its <<total, successful, failed>> counts (summary
\* format) and shown the log entries its text shows, summarised what
\* summarise() added to the answer of the make_move that ended the game
Call(tool, session_id, response, item1, item2, item, result, env_steps) ==
    [tool |-> tool, session_id |-> session_id, response |-> response, item1 |-> item1, item2 |-> item2, item |-> item, result |-> result, env_steps |-> env_steps, listed |-> {}, raised |-> "no", typed |-> <<>>, format |-> None, summary |-> <<>>, shown |-> <<>>, summarised |-> None]

\* mutant: start_game overwrites an existing session
AlreadyExists_Never(session_id) == FALSE

\* start_game: `if session_id in game_sessions`
AlreadyExists(session_id) == session_id \in DOMAIN game_sessions

\* the other tools: `if session_id not in game_sessions`
NotFound(session_id) == session_id \notin DOMAIN game_sessions

\* mutant: a finished session keeps accepting moves
AlreadyEnded_Never(session) == FALSE

\* make_move: `if session['done']`
AlreadyEnded(session) == session.done

\* mutant: the inventory is not checked
NotInInventory_Never(env, item) == FALSE

\* make_move: `if item not in inventory`
NotInInventory(env, item) == ~ Contains(LowerInventory(env), item)

Init ==
    /\ game_sessions = <<>>
    /\ attempt_logs = <<>>
    /\ lastCall = Call("none", None, None, None, None, None, None, 0)
    /\ now = 0

StartGame(session_id, game_mode, max_rounds, goal, raises) ==
    IF AlreadyExists(session_id)
    THEN /\ lastCall' = Call("start_game", session_id, "already_exists", None, None, None, None, 0)
         /\ UNCHANGED <<game_sessions, attempt_logs, now>>
    ELSE IF raises = "create"
    THEN /\ lastCall' = Call("start_game", session_id, "error", None, None, None, None, 0)
         /\ UNCHANGED <<game_sessions, attempt_logs, now>>
    ELSE LET targeted == (game_mode = "targeted")
             session  == CreateGameSession(targeted, max_rounds, goal)
         IN /\ game_sessions' = [s \in DOMAIN game_sessions \cup {session_id} |->
                                     IF s = session_id THEN session ELSE game_sessions[s]]
            /\ lastCall' = Call("start_game", session_id, IF raises = "state" THEN "error" ELSE "new_game", None, None, None, None, 0)
            /\ UNCHANGED <<attempt_logs, now>>

\* mutant: get_game_state answers for any session id
GetGameState_NoCheck(session_id, raises) ==
    /\ lastCall' = Call("get_game_state", session_id, IF raises THEN "error" ELSE "state", None, None, None, None, 0)
    /\ UNCHANGED <<game_sessions, attempt_logs, now>>

GetGameState(session_id, raises) ==
    /\ lastCall' = Call("get_game_state", session_id, IF NotFound(session_id) THEN "not_found" ELSE IF raises THEN "error" ELSE "state", None, None, None, None, 0)
    /\ UNCHANGED <<game_sessions, attempt_logs, now>>

\* make_move once the session is found, active and owns both items; raises is
\* where the call meets an exception (among MoveFailures); elapsed is
\* the time that passes between the handler's reading of the clock (line 549)
\* and log_attempt's (line 157)
AcceptedMove(session_id, item1, item2, raises, elapsed, typed) ==
    LET session == game_sessions[session_id]
        env     == session.env
        current_time          == now
        pre_action_inventory  == GetInventory(env)
        inventory_size_before == Len(pre_action_inventory)
        logs            == LogsOf(session_id)
        attempt_number  == AttemptNumber(logs)
        streak          == GetCurrentStreak(logs)
        time_since_last_success == GetTimeSinceLastSuccess(logs, current_time)
        is_novel        == IsNovelCombination(logs, item1, item2)
        value_error     == ListIndex(env.table, item1) = 0 \/ ListIndex(env.table, item2) = 0
        lookup          == LedgerLookup(env, item1, item2)
        pre_repeat      == ~ value_error /\ (lookup.is_repeated_successful \/ lookup.is_repeated_failed)
        \* the calls of env.step the handler makes: line 619, and line 629 when
        \* table.index or the first call raised ValueError or IndexError
        first_raises    == ~ pre_repeat /\ ~ value_error /\ raises \in {"step", "step_index", "step_index_twice"}
        fallback        == ~ pre_repeat /\ (value_error \/ raises \in {"step_index", "step_index_twice"})
        fallback_raises == fallback /\ IF value_error THEN raises \in {"step", "step_index", "step_index_twice"}
                                                      ELSE raises = "step_index_twice"
        env_steps       == IF pre_repeat THEN 0
                           ELSE IF value_error THEN 1
                           ELSE IF raises \in {"step_index", "step_index_twice"} THEN 2
                           ELSE 1
        met             == IF pre_repeat /\ raises # "log" THEN "no" ELSE raises
    IN
    IF (first_raises /\ ~ fallback) \/ fallback_raises
    THEN \* env.step raised its way out: `except Exception` answers with an error
         /\ lastCall' = [Call("make_move", session_id, "error", item1, item2, None, None, env_steps) EXCEPT !.raised = met, !.typed = typed]
         /\ UNCHANGED <<game_sessions, attempt_logs, now>>
    ELSE LET step == IF pre_repeat
                     THEN [env |-> env, reward |-> <<0>>, done |-> env.done, repeat |-> TRUE]
                     ELSE EnvStep(env, session.targeted, item1, item2)
             repeated_result == IF pre_repeat /\ lookup.is_repeated_successful
                                THEN lookup.repeated_result ELSE None
             new_items     == IF pre_repeat THEN <<>>
                              ELSE NotIn(GetInventory(step.env), pre_action_inventory)
             rounds_played == RoundsAfterMove(session.rounds_played)
             done          == DoneAfterMove(session.done, step.done, rounds_played, session.max_rounds)
             success        == LogSuccess(step.repeat, repeated_result, step.reward, new_items)
             result_element == LogResult(step.repeat, repeated_result, step.reward, new_items)
             entry == LogEntry(session_id, attempt_number, item1, item2, success, result_element, inventory_size_before, is_novel, streak, time_since_last_success, current_time + elapsed)
         IN /\ game_sessions' = [game_sessions EXCEPT ![session_id] =
                                     [session EXCEPT !.env = step.env,
                                                     !.rounds_played = rounds_played,
                                                     !.done = done]]
            /\ now' = current_time + elapsed
            /\ IF raises = "log"
               THEN \* log_attempt raised after lines 636-638: `except Exception`
                    /\ attempt_logs' = LogAttemptRaised(session_id)
                    /\ lastCall' = [Call("make_move", session_id, "error", item1, item2, None, None, env_steps) EXCEPT !.raised = met, !.typed = typed]
               ELSE /\ attempt_logs' = LogAttempt(session_id, entry)
                    /\ lastCall' = [Call("make_move", session_id, MoveResponse(step.repeat, repeated_result, step.reward, new_items), item1, item2, None, result_element, env_steps) EXCEPT !.raised = met, !.typed = typed, !.summarised = IF done THEN Summarise(step.env, session.targeted) ELSE None]

\* mutant: the items are looked up before the done flag is read
MakeMove_ItemsFirst(session_id, raw1, raw2, raises, elapsed) ==
    LET item1 == StripLower(raw1)
        item2 == StripLower(raw2)
    IN
    IF NotFound(session_id)
    THEN /\ lastCall' = [Call("make_move", session_id, "not_found", item1, item2, None, None, 0) EXCEPT !.typed = <<raw1, raw2>>]
         /\ UNCHANGED <<game_sessions, attempt_logs, now>>
    ELSE IF NotInInventory(game_sessions[session_id].env, item1)
    THEN /\ lastCall' = [Call("make_move", session_id, "not_in_inventory", item1, item2, item1, None, 0) EXCEPT !.typed = <<raw1, raw2>>]
         /\ UNCHANGED <<game_sessions, attempt_logs, now>>
    ELSE IF NotInInventory(game_sessions[session_id].env, item2)
    THEN /\ lastCall' = [Call("make_move", session_id, "not_in_inventory", item1, item2, item2, None, 0) EXCEPT !.typed = <<raw1, raw2>>]
         /\ UNCHANGED <<game_sessions, attempt_logs, now>>
    ELSE IF AlreadyEnded(game_sessions[session_id])
    THEN /\ lastCall' = [Call("make_move", session_id, "already_ended", item1, item2, None, None, 0) EXCEPT !.typed = <<raw1, raw2>>]
         /\ UNCHANGED <<game_sessions, attempt_logs, now>>
    ELSE AcceptedMove(session_id, item1, item2, raises, elapsed, <<raw1, raw2>>)

MakeMove(session_id, raw1, raw2, raises, elapsed) ==
    LET item1 == StripLower(raw1)
        item2 == StripLower(raw2)
    IN
    IF NotFound(session_id)
    THEN /\ lastCall' = [Call("make_move", session_id, "not_found", item1, item2, None, None, 0) EXCEPT !.typed = <<raw1, raw2>>]
         /\ UNCHANGED <<game_sessions, attempt_logs, now>>
    ELSE IF AlreadyEnded(game_sessions[session_id])
    THEN /\ lastCall' = [Call("make_move", session_id, "already_ended", item1, item2, None, None, 0) EXCEPT !.typed = <<raw1, raw2>>]
         /\ UNCHANGED <<game_sessions, attempt_logs, now>>
    ELSE IF NotInInventory(game_sessions[session_id].env, item1)
    THEN /\ lastCall' = [Call("make_move", session_id, "not_in_inventory", item1, item2, item1, None, 0) EXCEPT !.typed = <<raw1, raw2>>]
         /\ UNCHANGED <<game_sessions, attempt_logs, now>>
    ELSE IF NotInInventory(game_sessions[session_id].env, item2)
    THEN /\ lastCall' = [Call("make_move", session_id, "not_in_inventory", item1, item2, item2, None, 0) EXCEPT !.typed = <<raw1, raw2>>]
         /\ UNCHANGED <<game_sessions, attempt_logs, now>>
    ELSE AcceptedMove(session_id, item1, item2, raises, elapsed, <<raw1, raw2>>)

\* mutant: finished sessions are left out of the list
ListedSessions_ActiveOnly(sessions) ==
    {[session_id |-> s,
      status     |-> "Active",
      rounds     |-> <<sessions[s].rounds_played, sessions[s].max_rounds>>] : s \in {t \in DOMAIN sessions : ~ sessions[t].done}}

\* the lines list_active_sessions writes: one per entry of game_sessions, with
\* its status and rounds
ListedSessions(sessions) ==
    {[session_id |-> s,
      status     |-> IF sessions[s].done THEN "Completed" ELSE "Active",
      rounds     |-> <<sessions[s].rounds_played, sessions[s].max_rounds>>] : s \in DOMAIN sessions}

ListActiveSessions ==
    /\ lastCall' = [Call("list_active_sessions", None, IF DOMAIN game_sessions = {} THEN "no_sessions" ELSE "sessions", None, None, None, None, 0) EXCEPT !.listed = ListedSessions(game_sessions)]
    /\ UNCHANGED <<game_sessions, attempt_logs, now>>

\* mutant: the attempt log outlives its session
EndGame_KeepsLog(session_id, raises) ==
    IF NotFound(session_id)
    THEN /\ lastCall' = Call("end_game", session_id, "not_found", None, None, None, None, 0)
         /\ UNCHANGED <<game_sessions, attempt_logs, now>>
    ELSE IF raises
    THEN /\ lastCall' = Call("end_game", session_id, "error", None, None, None, None, 0)
         /\ UNCHANGED <<game_sessions, attempt_logs, now>>
    ELSE /\ game_sessions' = [s \in DOMAIN game_sessions \ {session_id} |-> game_sessions[s]]
         /\ lastCall' = Call("end_game", session_id, "ended", None, None, None, None, 0)
         /\ UNCHANGED <<attempt_logs, now>>

EndGame(session_id, raises) ==
    IF NotFound(session_id)
    THEN /\ lastCall' = Call("end_game", session_id, "not_found", None, None, None, None, 0)
         /\ UNCHANGED <<game_sessions, attempt_logs, now>>
    ELSE IF raises
    THEN \* the summary could not be built: nothing is deleted yet
         /\ lastCall' = Call("end_game", session_id, "error", None, None, None, None, 0)
         /\ UNCHANGED <<game_sessions, attempt_logs, now>>
    ELSE /\ game_sessions' = [s \in DOMAIN game_sessions \ {session_id} |-> game_sessions[s]]
         /\ attempt_logs' = [s \in DOMAIN attempt_logs \ {session_id} |-> attempt_logs[s]]
         /\ lastCall' = Call("end_game", session_id, "ended", None, None, None, None, 0)
         /\ UNCHANGED now

\* mutant: the summary keeps the recent entries only and drops the rest
GetAttemptLogs_Truncates(session_id, format_type, raises) ==
    IF LogsOf(session_id) = <<>>
    THEN /\ lastCall' = [Call("get_attempt_logs", session_id, "no_logs", None, None, None, None, 0) EXCEPT !.format = format_type]
         /\ UNCHANGED <<game_sessions, attempt_logs, now>>
    ELSE IF raises
    THEN /\ lastCall' = [Call("get_attempt_logs", session_id, "error", None, None, None, None, 0) EXCEPT !.format = format_type]
         /\ UNCHANGED <<game_sessions, attempt_logs, now>>
    ELSE LET logs == attempt_logs[session_id]
         IN /\ lastCall' = [Call("get_attempt_logs", session_id, "logs", None, None, None, None, 0) EXCEPT !.format = format_type, !.summary = IF format_type \in {"json", "csv"} THEN <<>> ELSE LogCounts(logs), !.shown = IF format_type \in {"json", "csv"} THEN logs ELSE RecentAttempts(logs)]
            /\ attempt_logs' = [attempt_logs EXCEPT ![session_id] = RecentAttempts(logs)]
            /\ UNCHANGED <<game_sessions, now>>

\* get_attempt_logs: no log or an empty one is answered first (808); json
\* and csv show every entry, any other format is the summary; raises is an
\* exception met while the text is built
GetAttemptLogs(session_id, format_type, raises) ==
    IF LogsOf(session_id) = <<>>
    THEN /\ lastCall' = [Call("get_attempt_logs", session_id, "no_logs", None, None, None, None, 0) EXCEPT !.format = format_type]
         /\ UNCHANGED <<game_sessions, attempt_logs, now>>
    ELSE IF raises
    THEN /\ lastCall' = [Call("get_attempt_logs", session_id, "error", None, None, None, None, 0) EXCEPT !.format = format_type]
         /\ UNCHANGED <<game_sessions, attempt_logs, now>>
    ELSE LET logs == attempt_logs[session_id]
         IN /\ lastCall' = [Call("get_attempt_logs", session_id, "logs", None, None, None, None, 0) EXCEPT !.format = format_type, !.summary = IF format_type \in {"json", "csv"} THEN <<>> ELSE LogCounts(logs), !.shown = IF format_type \in {"json", "csv"} THEN logs ELSE RecentAttempts(logs)]
            /\ UNCHANGED <<game_sessions, attempt_logs, now>>

DebugLoggingStatus(raises) ==
    /\ lastCall' = Call("debug_logging_status", None, IF raises THEN "error" ELSE IF DOMAIN attempt_logs = {} THEN "no_logs" ELSE "logs", None, None, None, None, 0)
    /\ UNCHANGED <<game_sessions, attempt_logs, now>>

\* the wall clock advances between two calls
Tick ==
    /\ now < MaxTime
    /\ now' = now + 1
    /\ lastCall' = Call("none", None, None, None, None, None, None, 0)
    /\ UNCHANGED <<game_sessions, attempt_logs>>

Next ==
    \/ \E session_id \in SoloIds, game_mode \in GameModes, max_rounds \in MinRounds..MaxRounds : \E goal \in GoalsOf(game_mode, Goals), raises \in StartFailures : StartGame(session_id, game_mode, max_rounds, goal, raises)
    \/ \E session_id \in SoloIds, raises \in BOOLEAN : GetGameState(session_id, raises)
    \/ \E session_id \in SoloIds, raw1 \in RawNames, raw2 \in RawNames, raises \in StepFailures : MakeMove(session_id, raw1, raw2, raises, 0)
    \/ ListActiveSessions
    \/ \E session_id \in SoloIds, raises \in BOOLEAN : EndGame(session_id, raises)
    \/ \E session_id \in SoloIds, raises \in BOOLEAN : GetAttemptLogs(session_id, "summary", raises)
    \/ \E raises \in BOOLEAN : DebugLoggingStatus(raises)

\* one caller, one session identifier
Spec == Init /\ [][Next]_vars

NextMulti ==
    \/ \E session_id \in SessionIds, game_mode \in GameModes, max_rounds \in MinRounds..MaxRounds : \E goal \in GoalsOf(game_mode, MultiGoals), raises \in StartFailures : StartGame(session_id, game_mode, max_rounds, goal, raises)
    \/ \E session_id \in SessionIds, raises \in BOOLEAN : GetGameState(session_id, raises)
    \/ \E session_id \in SessionIds, raw1 \in MultiFirst, raw2 \in MultiSecond, raises \in StepFailures : MakeMove(session_id, raw1, raw2, raises, 0)
    \/ ListActiveSessions
    \/ \E session_id \in SessionIds, raises \in BOOLEAN : EndGame(session_id, raises)
    \/ \E session_id \in SessionIds, raises \in BOOLEAN : GetAttemptLogs(session_id, "summary", raises)
    \/ \E raises \in BOOLEAN : DebugLoggingStatus(raises)

\* two session identifiers, their calls interleaved
SpecMulti == Init /\ [][NextMulti]_vars

NextLog ==
    \/ \E session_id \in SoloIds : StartGame(session_id, "open-ended", LogRounds, None, "no")
    \/ \E session_id \in SoloIds, raw1 \in LogNames, raw2 \in LogNames : MakeMove(session_id, raw1, raw2, "no", 0)
    \/ \E session_id \in SoloIds : EndGame(session_id, FALSE)

\* one session with a long round budget: attempt logs of many entries
SpecLog == Init /\ [][NextLog]_vars

NextTime ==
    \/ \E session_id \in SoloIds : StartGame(session_id, "open-ended", TimeRounds, None, "no")
    \/ \E session_id \in SoloIds, raw1 \in MultiFirst, raw2 \in MultiSecond, elapsed \in 0..MaxElapsed : now + elapsed <= MaxTime /\ MakeMove(session_id, raw1, raw2, "no", elapsed)
    \/ Tick
    \/ \E session_id \in SoloIds : EndGame(session_id, FALSE)

\* one session while the wall clock runs
SpecTime == Init /\ [][NextTime]_vars

NextFail ==
    \/ \E session_id \in SoloIds, game_mode \in GameModes, max_rounds \in MinRounds..MaxRounds : \E goal \in GoalsOf(game_mode, MultiGoals) : StartGame(session_id, game_mode, max_rounds, goal, "no")
    \/ \E session_id \in SoloIds, raw1 \in MultiFirst, raw2 \in MultiSecond, raises \in MoveFailures : MakeMove(session_id, raw1, raw2, raises, 0)
    \/ \E session_id \in SoloIds, raises \in BOOLEAN : GetAttemptLogs(session_id, "summary", raises)
    \/ \E session_id \in SoloIds : EndGame(session_id, FALSE)

\* one session whose moves meet every failure of MoveFailures
SpecFail == Init /\ [][NextFail]_vars

NextRead ==
    \/ \E session_id \in SoloIds : StartGame(session_id, "open-ended", ReadRounds, None, "no")
    \/ \E session_id \in SoloIds, raw1 \in MultiFirst, raw2 \in MultiSecond : MakeMove(session_id, raw1, raw2, "no", 0)
    \/ \E session_id \in SoloIds, raises \in BOOLEAN : GetGameState(session_id, raises)
    \/ ListActiveSessions
    \/ \E session_id \in SoloIds, format_type \in Formats, raises \in BOOLEAN : GetAttemptLogs(session_id, format_type, raises)
    \/ \E raises \in BOOLEAN : DebugLoggingStatus(raises)
    \/ \E session_id \in SoloIds : EndGame(session_id, FALSE)

\* one session read by every read operation, in every format, between moves
SpecRead == Init /\ [][NextRead]_vars

\* a make_move call on session_id that passes the preconditions and is
\* carried through (lines 578-730)
Play(session_id) ==
    \E raw1 \in MultiFirst, raw2 \in RawNames :
        /\ ~ NotFound(session_id)
        /\ ~ AlreadyEnded(game_sessions[session_id])
        /\ ~ NotInInventory(game_sessions[session_id].env, StripLower(raw1))
        /\ ~ NotInInventory(game_sessions[session_id].env, StripLower(raw2))
        /\ MakeMove(session_id, raw1, raw2, "no", 0)

NextPlay ==
    \/ \E session_id \in SoloIds, game_mode \in GameModes, max_rounds \in MinRounds..MaxRounds : \E goal \in GoalsOf(game_mode, Goals) : StartGame(session_id, game_mode, max_rounds, goal, "no")
    \/ \E session_id \in SoloIds, raw1 \in MultiFirst, raw2 \in RawNames, raises \in StepFailures : MakeMove(session_id, raw1, raw2, raises, 0)
    \/ \E session_id \in SoloIds : EndGame(session_id, FALSE)

\* one session whose caller keeps playing: as long as the session takes
\* moves, a move that passes the preconditions is eventually made
SpecPlay == Init /\ [][NextPlay]_vars /\ \A session_id \in SoloIds : WF_vars(Play(session_id))

---------------------------------------------------------------------------
(* Vocabulary of the properties, stated on the state itself *)

Registered == DOMAIN game_sessions

\* the items a session owns
Owned(sid) == SeqToSet(game_sessions[sid].env.table)

\* the step is a make_move call addressed to sid
MoveOn(sid) == lastCall'.tool = "make_move" /\ lastCall'.session_id = sid

\* sid is registered and active and owns both items the call names
MovePreconditions(sid) ==
    /\ sid \in Registered
    /\ ~ game_sessions[sid].done
    /\ lastCall'.item1 \in Owned(sid)
    /\ lastCall'.item2 \in Owned(sid)

\* the responses of an accepted move
AcceptedResponses == {"success", "success_unidentified", "no_result", "repeat_valid", "repeat_invalid"}

\* the unordered pairs an environment's ledger holds as valid, with the result
ValidPairs(env) ==
    {[pair   |-> {env.table[env.past_valid_combs[k].comb[1]], env.table[env.past_valid_combs[k].comb[2]]},
      result |-> env.table[env.past_valid_combs[k].result]] : k \in 1..Len(env.past_valid_combs)}

\* the unordered pairs an environment's ledger holds as invalid
InvalidPairs(env) ==
    {{env.table[env.past_invalid_combs[k][1]], env.table[env.past_invalid_combs[k][2]]} : k \in 1..Len(env.past_invalid_combs)}

KnownValid(env, a, b) == \E v \in ValidPairs(env) : v.pair = {a, b}

KnownInvalid(env, a, b) == {a, b} \in InvalidPairs(env)

CachedResult(env, a, b) == (CHOOSE v \in ValidPairs(env) : v.pair = {a, b}).result

\* the run of entries with one outcome that ends at entry k of a log
\* (k = 0: no entry)
RunEndingAt(logs, k) ==
    IF k = 0 THEN [type |-> "none", length |-> 0]
    ELSE [type   |-> IF logs[k].Success THEN "success" ELSE "failure",
          length |-> Cardinality({i \in 1..k : \A j \in i..k : logs[j].Success = logs[k].Success})]

\* the Success flags of a log, in order
Outcomes(logs) == [k \in 1..Len(logs) |-> logs[k].Success]

\* the positions of a log's successful entries
Successes(logs) == {i \in 1..Len(logs) : logs[i].Success}

\* the greatest of a non-empty set of numbers
Max(S) == CHOOSE m \in S : \A n \in S : n <= m

\* the unordered pair an entry names
PairOf(entry) == {entry.Element_1, entry.Element_2}

\* the item a typed name denotes: names that differ only in letter case or in
\* surrounding whitespace denote one item
Denotes(typed_name) ==
    IF typed_name \in {"fire", "Fire", " Fire", "FIRE"} THEN "fire"
    ELSE IF typed_name \in {"air", "Air", " air "} THEN "air"
    ELSE typed_name

---------------------------------------------------------------------------
(* Properties *)

\* C1: every make_move whose preconditions hold (session registered, not done,
\* both items owned) and whose resolver call does not raise answers with a
\* Success, Failure or Repeat outcome and adds exactly 1 to rounds_played.
C1_RoundConsumed ==
    [][\A sid \in SessionIds :
          (MoveOn(sid) /\ MovePreconditions(sid) /\ lastCall'.response # "error")
          => /\ lastCall'.response \in AcceptedResponses
             /\ game_sessions'[sid].rounds_played = game_sessions[sid].rounds_played + 1]_vars

\* a repeat of a valid pair was the session's second round
C1_Witness ==
    \E sid \in Registered :
        /\ lastCall.tool = "make_move" /\ lastCall.session_id = sid
        /\ lastCall.response = "repeat_valid"
        /\ game_sessions[sid].rounds_played = 2

\* C2: a done session stays done for as long as it is registered, and a
\* make_move on it is answered "already ended" with no resolver call and no
\* change of sessions or logs.
C2_TerminalMonotone ==
    [][\A sid \in SessionIds :
          (sid \in Registered /\ game_sessions[sid].done)
          => /\ sid \in DOMAIN game_sessions' => game_sessions'[sid].done
             /\ MoveOn(sid) => /\ lastCall'.response = "already_ended"
                               /\ lastCall'.env_steps = 0
                               /\ game_sessions' = game_sessions
                               /\ attempt_logs' = attempt_logs]_vars

\* a move on a done session was turned away
C2_Witness ==
    \E sid \in Registered :
        /\ lastCall.tool = "make_move" /\ lastCall.session_id = sid
        /\ lastCall.response = "already_ended"
        /\ game_sessions[sid].done
        /\ game_sessions[sid].rounds_played = game_sessions[sid].max_rounds

\* C3: a make_move on a pair the ledger already holds, in either order, does
\* not call env.step and answers with the cached outcome: the recorded result
\* of a valid pair, "no combination" of an invalid one.
C3_Idempotent ==
    [][\A sid \in SessionIds :
          (MoveOn(sid) /\ MovePreconditions(sid))
          => LET env == game_sessions[sid].env
                 a   == lastCall'.item1
                 b   == lastCall'.item2
             IN /\ KnownValid(env, a, b)
                   => /\ lastCall'.env_steps = 0
                      /\ lastCall'.response = "repeat_valid"
                      /\ lastCall'.result = CachedResult(env, a, b)
                /\ KnownInvalid(env, a, b)
                   => /\ lastCall'.env_steps = 0
                      /\ lastCall'.response = "repeat_invalid"
                      /\ lastCall'.result = None]_vars

\* a valid pair was repeated in the order opposite to the one recorded
C3_Witness ==
    \E sid \in Registered :
        LET logs == LogsOf(sid) IN
        /\ lastCall.tool = "make_move" /\ lastCall.session_id = sid
        /\ lastCall.response = "repeat_valid"
        /\ Len(logs) = 2
        /\ logs[1].Element_1 = logs[2].Element_2
        /\ logs[1].Element_2 = logs[2].Element_1
        /\ logs[1].Element_1 # logs[1].Element_2

\* C4: in every reachable state, for all owned items a and b, make_move's
\* ledger lookup answers the same for (a, b) and for (b, a).
C4_LookupSymmetric ==
    \A sid \in Registered :
        \A a \in Owned(sid), b \in Owned(sid) :
            LedgerLookup(game_sessions[sid].env, a, b) = LedgerLookup(game_sessions[sid].env, b, a)

\* an invalid and a valid pair of distinct items are on the ledger, each found
\* from the ordering that was not recorded
C4_Witness ==
    \E sid \in Registered :
        LET env == game_sessions[sid].env IN
        /\ \E a \in Owned(sid), b \in Owned(sid) :
              /\ a # b
              /\ ~ InValid(env, <<ListIndex(env.table, b), ListIndex(env.table, a)>>)
              /\ LedgerLookup(env, b, a).is_repeated_successful
        /\ \E a \in Owned(sid), b \in Owned(sid) :
              /\ a # b
              /\ ~ InInvalid(env, <<ListIndex(env.table, b), ListIndex(env.table, a)>>)
              /\ LedgerLookup(env, b, a).is_repeated_failed

\* C5: no unordered pair is both known-valid and known-invalid, and while the
\* session stays registered a known-valid pair stays valid with the same
\* result and a known-invalid pair stays invalid.
C5_LedgerImmutable ==
    [][game_sessions' # game_sessions =>
       \A sid \in DOMAIN game_sessions' :
          LET env2 == game_sessions'[sid].env IN
          /\ \A a \in SeqToSet(env2.table), b \in SeqToSet(env2.table) :
                /\ ~ (KnownValid(env2, a, b) /\ KnownInvalid(env2, a, b))
                /\ Cardinality({v \in ValidPairs(env2) : v.pair = {a, b}}) <= 1
          /\ sid \in Registered
             => \A a \in Owned(sid), b \in Owned(sid) :
                   LET env == game_sessions[sid].env IN
                   /\ KnownValid(env, a, b)
                      => KnownValid(env2, a, b) /\ CachedResult(env2, a, b) = CachedResult(env, a, b)
                   /\ KnownInvalid(env, a, b) => KnownInvalid(env2, a, b)]_vars

\* a session whose ledger holds a valid and an invalid pair was played on
C5_Witness ==
    \E sid \in Registered :
        LET env == game_sessions[sid].env IN
        /\ Len(env.past_valid_combs) >= 1
        /\ Len(env.past_invalid_combs) >= 1
        /\ game_sessions[sid].rounds_played = 2

\* C6: a session whose rounds_played has reached max_rounds is done; with a
\* budget of 1 the first accepted attempt, whatever its outcome, ends it.
C6_DoneWhenExhausted ==
    \A sid \in Registered :
        game_sessions[sid].rounds_played >= game_sessions[sid].max_rounds
        => game_sessions[sid].done

\* a budget-1 session is done after a single failed attempt
C6_Witness ==
    \E sid \in Registered :
        /\ game_sessions[sid].max_rounds = 1
        /\ game_sessions[sid].rounds_played = 1
        /\ game_sessions[sid].done
        /\ lastCall.tool = "make_move" /\ lastCall.session_id = sid
        /\ lastCall.response = "no_result"

\* C7: in targeted mode an accepted make_move whose result is the goal item
\* leaves the session done, whatever rounds remain.
C7_GoalEndsGame ==
    [][\A sid \in SessionIds :
          (/\ MoveOn(sid) /\ MovePreconditions(sid)
           /\ game_sessions[sid].targeted
           /\ lastCall'.response \in AcceptedResponses
           /\ lastCall'.result = game_sessions[sid].env.goal)
          => game_sessions'[sid].done]_vars

\* a targeted session is done through its goal with rounds to spare
C7_Witness ==
    \E sid \in Registered :
        /\ game_sessions[sid].targeted
        /\ lastCall.tool = "make_move" /\ lastCall.session_id = sid
        /\ lastCall.response = "success"
        /\ lastCall.result = game_sessions[sid].env.goal
        /\ game_sessions[sid].done
        /\ game_sessions[sid].rounds_played < game_sessions[sid].max_rounds

\* C8: every registered session has max_rounds >= 1 and
\* 0 <= rounds_played <= max_rounds, and no step lowers rounds_played.
C8_RoundsWithinBudget ==
    [][\A sid \in DOMAIN game_sessions' :
          /\ game_sessions'[sid].max_rounds \in Int
          /\ game_sessions'[sid].max_rounds >= 1
          /\ 0 <= game_sessions'[sid].rounds_played
          /\ game_sessions'[sid].rounds_played <= game_sessions'[sid].max_rounds
          /\ sid \in Registered
             => game_sessions'[sid].rounds_played >= game_sessions[sid].rounds_played]_vars

\* a session has used its whole budget of more than one round
C8_Witness ==
    \E sid \in Registered :
        /\ game_sessions[sid].max_rounds > 1
        /\ game_sessions[sid].rounds_played = game_sessions[sid].max_rounds

\* C9: a make_move on an active session that names an item the session does
\* not own is answered "not in inventory" with the first such item, calls no
\* resolver, and changes neither the sessions nor the logs.
C9_NotInInventoryRejected ==
    [][\A sid \in SessionIds :
          (/\ MoveOn(sid)
           /\ sid \in Registered
           /\ ~ game_sessions[sid].done
           /\ (lastCall'.item1 \notin Owned(sid) \/ lastCall'.item2 \notin Owned(sid)))
          => /\ lastCall'.response = "not_in_inventory"
             /\ lastCall'.item = (IF lastCall'.item1 \notin Owned(sid) THEN lastCall'.item1 ELSE lastCall'.item2)
             /\ lastCall'.env_steps = 0
             /\ game_sessions' = game_sessions
             /\ attempt_logs' = attempt_logs]_vars

\* a session in play turned away a move whose second item it does not own
C9_Witness ==
    \E sid \in Registered :
        /\ lastCall.tool = "make_move" /\ lastCall.session_id = sid
        /\ lastCall.response = "not_in_inventory"
        /\ lastCall.item = lastCall.item2
        /\ lastCall.item1 \in Owned(sid)
        /\ lastCall.item \notin Owned(sid)
        /\ game_sessions[sid].rounds_played >= 1
        /\ ~ game_sessions[sid].done

\* C10: start_game with a registered session id is answered "already exists"
\* and changes no session and no attempt log.
C10_DuplicateStartRejected ==
    [][\A sid \in SessionIds :
          (lastCall'.tool = "start_game" /\ lastCall'.session_id = sid /\ sid \in Registered)
          => /\ lastCall'.response = "already_exists"
             /\ game_sessions' = game_sessions
             /\ attempt_logs' = attempt_logs]_vars

\* a second start of a session in play was turned away while another session
\* was registered too
C10_Witness ==
    \E sid \in Registered :
        /\ lastCall.tool = "start_game" /\ lastCall.session_id = sid
        /\ lastCall.response = "already_exists"
        /\ game_sessions[sid].rounds_played >= 1
        /\ Len(LogsOf(sid)) >= 1
        /\ Cardinality(Registered) = 2

\* C11: get_game_state, make_move and end_game on a session id that is not
\* registered are each answered "not found" and change no session and no
\* attempt log: no session is created, no entry is logged.
C11_NotFoundRejected ==
    [][\A sid \in SessionIds :
          (/\ lastCall'.tool \in {"get_game_state", "make_move", "end_game"}
           /\ lastCall'.session_id = sid
           /\ sid \notin Registered)
          => /\ lastCall'.response = "not_found"
             /\ lastCall'.env_steps = 0
             /\ game_sessions' = game_sessions
             /\ attempt_logs' = attempt_logs]_vars

\* get_game_state on an unknown id was turned away while another session, with
\* a log, was in play
C11_Witness ==
    \E sid \in SessionIds \ Registered :
        /\ lastCall.tool = "get_game_state" /\ lastCall.session_id = sid
        /\ lastCall.response = "not_found"
        /\ \E other \in Registered : Len(LogsOf(other)) >= 1

\* C12: an end_game on a registered session that answers with the final
\* summary leaves the id in neither game_sessions nor attempt_logs, and no
\* attempt log is ever kept for an id that is not registered.
C12_EndRemovesBoth ==
    [][/\ \A sid \in SessionIds :
            (/\ lastCall'.tool = "end_game" /\ lastCall'.session_id = sid
             /\ lastCall'.response = "ended"
             /\ sid \in Registered)
            => /\ sid \notin DOMAIN game_sessions'
               /\ sid \notin DOMAIN attempt_logs'
       /\ DOMAIN attempt_logs' \subseteq DOMAIN game_sessions']_vars

\* a session was ended while the other one, with its log, stays
C12_Witness ==
    \E sid \in SessionIds \ Registered :
        /\ lastCall.tool = "end_game" /\ lastCall.session_id = sid
        /\ lastCall.response = "ended"
        /\ sid \notin DOMAIN attempt_logs
        /\ \E other \in Registered : other \in DOMAIN attempt_logs

\* C13: a registered session leaves game_sessions only through an end_game on
\* its id that answers with the summary, and an id enters it only through a
\* start_game on that id; list_active_sessions lists exactly the registered
\* ids, the finished ones as "Completed".
C13_NoEviction ==
    [][/\ \A sid \in SessionIds :
            /\ (sid \in Registered /\ sid \notin DOMAIN game_sessions')
               => (lastCall'.tool = "end_game" /\ lastCall'.session_id = sid /\ lastCall'.response = "ended")
            /\ (sid \notin Registered /\ sid \in DOMAIN game_sessions')
               => (lastCall'.tool = "start_game" /\ lastCall'.session_id = sid)
       /\ lastCall'.tool = "list_active_sessions"
          => /\ {l.session_id : l \in lastCall'.listed} = Registered
             /\ \A l \in lastCall'.listed :
                   l.status = (IF game_sessions[l.session_id].done THEN "Completed" ELSE "Active")]_vars

\* two sessions are listed, one of them finished
C13_Witness ==
    /\ lastCall.tool = "list_active_sessions"
    /\ Cardinality(Registered) = 2
    /\ {l.session_id : l \in lastCall.listed} = Registered
    /\ \E sid \in Registered : game_sessions[sid].done
    /\ \E sid \in Registered : ~ game_sessions[sid].done

\* C14: in every reachable state the k-th entry of every attempt log has
\* Attempt_Number = k, whatever the outcomes of the attempts.
C14_AttemptNumbers ==
    \A sid \in DOMAIN attempt_logs :
        \A k \in 1..Len(attempt_logs[sid]) : attempt_logs[sid][k].Attempt_Number = k

\* a log of five entries or more with a success, a failure and a repeated pair
C14_Witness ==
    \E sid \in DOMAIN attempt_logs :
        LET logs == attempt_logs[sid] IN
        /\ Len(logs) >= 5
        /\ \E k \in 1..Len(logs) : logs[k].Success
        /\ \E k \in 1..Len(logs) : ~ logs[k].Success
        /\ PairOf(logs[1]) = PairOf(logs[2])

\* C15: in every attempt log an entry has Is_Novel_Combination = true exactly
\* when no earlier entry names the same unordered pair.
C15_NoveltyFlag ==
    \A sid \in DOMAIN attempt_logs :
        LET logs == attempt_logs[sid] IN
        \A k \in 1..Len(logs) :
            logs[k].Is_Novel_Combination = (~ \E j \in 1..(k - 1) : PairOf(logs[j]) = PairOf(logs[k]))

\* a pair logged in one order, then reversed, then again, then a new pair
C15_Witness ==
    \E sid \in DOMAIN attempt_logs :
        LET logs == attempt_logs[sid] IN
        /\ Len(logs) >= 4
        /\ logs[1].Element_1 # logs[1].Element_2
        /\ logs[2].Element_1 = logs[1].Element_2 /\ logs[2].Element_2 = logs[1].Element_1
        /\ logs[3].Element_1 = logs[1].Element_1 /\ logs[3].Element_2 = logs[1].Element_2
        /\ ~ logs[2].Is_Novel_Combination /\ ~ logs[3].Is_Novel_Combination
        /\ PairOf(logs[4]) # PairOf(logs[1]) /\ logs[4].Is_Novel_Combination

\* C16 as stated: every entry's streak type and length are those of the run
\* of same-outcome entries that ends at and includes the entry.
C16_StreakIncludesEntry ==
    \A sid \in DOMAIN attempt_logs :
        LET logs == attempt_logs[sid] IN
        \A k \in 1..Len(logs) :
            /\ logs[k].Current_Streak_Type = RunEndingAt(logs, k).type
            /\ logs[k].Current_Streak_Length = RunEndingAt(logs, k).length

\* C16, amended: every entry's streak type and length are those of the run
\* that ends at the entry before it ("none", 0 for the first entry), and
\* get_current_streak of a log is the run that ends at its last entry.
C16_StreakBeforeAttempt ==
    \A sid \in DOMAIN attempt_logs :
        LET logs == attempt_logs[sid] IN
        /\ \A k \in 1..Len(logs) :
              /\ logs[k].Current_Streak_Type = RunEndingAt(logs, k - 1).type
              /\ logs[k].Current_Streak_Length = RunEndingAt(logs, k - 1).length
        /\ GetCurrentStreak(logs) = RunEndingAt(logs, Len(logs))

\* outcomes F,F,S,S,S and one more failure: that entry records success, 3 and
\* the log's streak is then failure, 1
C16_Witness ==
    \E sid \in DOMAIN attempt_logs :
        LET logs == attempt_logs[sid] IN
        /\ Outcomes(logs) = <<FALSE, FALSE, TRUE, TRUE, TRUE, FALSE>>
        /\ logs[5].Current_Streak_Type = "success" /\ logs[5].Current_Streak_Length = 2
        /\ logs[6].Current_Streak_Type = "success" /\ logs[6].Current_Streak_Length = 3
        /\ GetCurrentStreak(logs) = [type |-> "failure", length |-> 1]

\* C17: the entry an accepted make_move logs has no Time_Since_Last_Success
\* exactly when no earlier entry of the session's log has Success; otherwise
\* it holds the time read at the start of the call less the _timestamp of the
\* latest earlier successful entry.  Entries once logged keep their value.
C17_TimeSinceLastSuccess ==
    [][\A sid \in SessionIds :
          (MoveOn(sid) /\ lastCall'.response \in AcceptedResponses)
          => LET logs  == LogsOf(sid)
                 logs2 == attempt_logs'[sid]
                 entry == logs2[Len(logs2)]
             IN /\ Len(logs2) = Len(logs) + 1
                /\ \A k \in 1..Len(logs) : logs2[k] = logs[k]
                /\ (entry.Time_Since_Last_Success = <<>>) <=> (Successes(logs) = {})
                /\ Successes(logs) # {}
                   => entry.Time_Since_Last_Success = <<now - logs[Max(Successes(logs))]._timestamp>>]_vars

\* two successes at different times, then an entry that measures from the
\* second one
C17_Witness ==
    \E sid \in DOMAIN attempt_logs :
        LET logs == attempt_logs[sid] IN
        /\ Len(logs) = 3
        /\ logs[1].Success /\ logs[2].Success
        /\ logs[1].Time_Since_Last_Success = <<>>
        /\ logs[1]._timestamp < logs[2]._timestamp
        /\ logs[3].Time_Since_Last_Success = <<1>>
        /\ logs[3]._timestamp > logs[2]._timestamp + 1

\* C18: while a session stays registered no step takes an item off its
\* table or moves one (the table only grows at its end), and no table ever
\* holds an item twice.
C18_InventoryMonotone ==
    [][\A sid \in DOMAIN game_sessions' :
          LET table2 == game_sessions'[sid].env.table IN
          /\ Cardinality(SeqToSet(table2)) = Len(table2)
          /\ sid \in Registered
             => LET table == game_sessions[sid].env.table IN
                /\ Len(table) <= Len(table2)
                /\ \A i \in 1..Len(table) : table2[i] = table[i]]_vars

\* a recipe whose product was owned already was resolved, and the table has
\* grown by the one item
C18_Witness ==
    \E sid \in Registered :
        /\ lastCall.tool = "make_move" /\ lastCall.session_id = sid
        /\ lastCall.response = "success_unidentified"
        /\ game_sessions[sid].env.table = BaseInventory \o <<"energy">>

\* C19: on a fresh session (base table, empty ledger, no round played) an
\* attempt at air and fire, in either order, succeeds with energy: the table
\* becomes the base items and energy, one round is consumed, the ledger holds
\* the one valid pair {air, fire} -> energy and the entry logged is a success.
C19_ReversedOrderSame ==
    [][\A sid \in SessionIds :
          (/\ MoveOn(sid) /\ MovePreconditions(sid)
           /\ game_sessions[sid].rounds_played = 0
           /\ game_sessions[sid].env.table = BaseInventory
           /\ game_sessions[sid].env.past_valid_combs = <<>>
           /\ game_sessions[sid].env.past_invalid_combs = <<>>
           /\ {lastCall'.item1, lastCall'.item2} = {"air", "fire"}
           /\ lastCall'.response # "error")
          => LET env2  == game_sessions'[sid].env
                 logs2 == attempt_logs'[sid]
             IN /\ lastCall'.response = "success"
                /\ lastCall'.result = "energy"
                /\ env2.table = BaseInventory \o <<"energy">>
                /\ Len(env2.table) = 5
                /\ game_sessions'[sid].rounds_played = 1
                /\ ValidPairs(env2) = {[pair |-> {"air", "fire"}, result |-> "energy"]}
                /\ InvalidPairs(env2) = {}
                /\ logs2[Len(logs2)].Success
                /\ logs2[Len(logs2)].Result_Element = "energy"]_vars

\* the first attempt of a session was fire and air, in that order
C19_Witness ==
    \E sid \in Registered :
        /\ lastCall.tool = "make_move" /\ lastCall.session_id = sid
        /\ lastCall.item1 = "fire" /\ lastCall.item2 = "air"
        /\ lastCall.response = "success"
        /\ game_sessions[sid].rounds_played = 1
        /\ Len(game_sessions[sid].env.table) = 5

\* C20: an accepted make_move on a pair the ledger holds leaves the
\* environment (table, ledger, its done flag) as it is, adds 1 to
\* rounds_played, may set done, leaves max_rounds and the mode alone and
\* appends one entry to the session's attempt log.
C20_RepeatFrame ==
    [][\A sid \in SessionIds :
          (/\ MoveOn(sid) /\ MovePreconditions(sid)
           /\ \/ KnownValid(game_sessions[sid].env, lastCall'.item1, lastCall'.item2)
              \/ KnownInvalid(game_sessions[sid].env, lastCall'.item1, lastCall'.item2))
          => LET session  == game_sessions[sid]
                 session2 == game_sessions'[sid]
                 logs     == LogsOf(sid)
                 logs2    == attempt_logs'[sid]
             IN /\ lastCall'.response \in {"repeat_valid", "repeat_invalid"}
                /\ session2.env = session.env
                /\ session2.rounds_played = session.rounds_played + 1
                /\ session2.max_rounds = session.max_rounds
                /\ session2.targeted = session.targeted
                /\ Len(logs2) = Len(logs) + 1
                /\ \A k \in 1..Len(logs) : logs2[k] = logs[k]
                /\ \A other \in Registered \ {sid} :
                      /\ game_sessions'[other] = game_sessions[other]
                      /\ LogsOf(other) = IF other \in DOMAIN attempt_logs' THEN attempt_logs'[other] ELSE <<>>]_vars

\* air and fire were attempted twice: Repeat(energy), five items, two rounds
C20_Witness ==
    \E sid \in Registered :
        LET logs == LogsOf(sid) IN
        /\ lastCall.tool = "make_move" /\ lastCall.session_id = sid
        /\ lastCall.response = "repeat_valid" /\ lastCall.result = "energy"
        /\ Len(logs) = 2
        /\ logs[1].Element_1 = "air" /\ logs[1].Element_2 = "fire"
        /\ logs[2].Element_1 = "air" /\ logs[2].Element_2 = "fire"
        /\ Len(game_sessions[sid].env.table) = 5
        /\ game_sessions[sid].rounds_played = 2

\* C21: a make_move during which env.step raises is answered with an error
\* and leaves the sessions (rounds_played, done, table, ledger) and the
\* attempt logs exactly as they were.
C21_ResolverFailureAtomic ==
    [][\A sid \in SessionIds :
          (MoveOn(sid) /\ lastCall'.raised \in {"step", "step_index", "step_index_twice"})
          => /\ lastCall'.response = "error"
             /\ game_sessions' = game_sessions
             /\ attempt_logs' = attempt_logs]_vars

\* C22: an accepted make_move whose log_attempt raises still answers with the
\* move's outcome, and its round stands.
C22_LogBestEffort ==
    [][\A sid \in SessionIds :
          (MoveOn(sid) /\ lastCall'.raised = "log")
          => /\ lastCall'.response \in AcceptedResponses
             /\ game_sessions'[sid].rounds_played = game_sessions[sid].rounds_played + 1]_vars

\* C28: a make_move calls env.step at most once, also when the call raises.
C28_NoRetry ==
    [][\A sid \in SessionIds : MoveOn(sid) => lastCall'.env_steps <= 1]_vars


\* C23: when make_move resolves a pair the ledger does not hold and the
\* resolver has no combination for it, the call answers the ordinary
\* "no result" outcome and not an error, one round is consumed, the inventory
\* is unchanged, the attempt is logged as a failure, and the pair is
\* known-invalid afterwards, so that the ledger lookup of the next attempt
\* finds it in either order.
C23_NoResultIsFailure ==
    [][\A sid \in SessionIds :
          (/\ MoveOn(sid)
           /\ MovePreconditions(sid)
           /\ lastCall'.raised = "no"
           /\ ~ KnownValid(game_sessions[sid].env, lastCall'.item1, lastCall'.item2)
           /\ ~ KnownInvalid(game_sessions[sid].env, lastCall'.item1, lastCall'.item2)
           /\ Recipe(lastCall'.item1, lastCall'.item2) = <<>>)
          => LET a    == lastCall'.item1
                 b    == lastCall'.item2
                 env2 == game_sessions'[sid].env
                 logs == attempt_logs'[sid]
             IN /\ lastCall'.response = "no_result"
                /\ game_sessions'[sid].rounds_played = game_sessions[sid].rounds_played + 1
                /\ env2.table = game_sessions[sid].env.table
                /\ KnownInvalid(env2, a, b)
                /\ ~ KnownValid(env2, a, b)
                /\ LedgerLookup(env2, a, b).is_repeated_failed
                /\ LedgerLookup(env2, b, a).is_repeated_failed
                /\ ~ logs[Len(logs)].Success
                /\ logs[Len(logs)].Result_Element = None]_vars

\* a pair of two different items has just been resolved to no result and is
\* now found by the ledger lookup in the other order
C23_Witness ==
    /\ lastCall.tool = "make_move"
    /\ lastCall.response = "no_result"
    /\ lastCall.item1 # lastCall.item2
    /\ lastCall.session_id \in Registered
    /\ LedgerLookup(game_sessions[lastCall.session_id].env, lastCall.item2, lastCall.item1).is_repeated_failed

\* C24: when make_move resolves a pair the ledger does not hold and the
\* resolver produces one or more items, the outcome is a success: the pair is
\* recorded valid, every produced item is owned afterwards and nothing else
\* is added, the answer is the success answer, and the attempt is logged with
\* Success = TRUE and the produced item(s) as its result.
C24_ResultIsSuccess ==
    [][\A sid \in SessionIds :
          (/\ MoveOn(sid)
           /\ MovePreconditions(sid)
           /\ lastCall'.raised = "no"
           /\ ~ KnownValid(game_sessions[sid].env, lastCall'.item1, lastCall'.item2)
           /\ ~ KnownInvalid(game_sessions[sid].env, lastCall'.item1, lastCall'.item2)
           /\ Recipe(lastCall'.item1, lastCall'.item2) # <<>>)
          => LET a        == lastCall'.item1
                 b        == lastCall'.item2
                 produced == SeqToSet(Recipe(a, b))
                 env2     == game_sessions'[sid].env
                 logs     == attempt_logs'[sid]
             IN /\ lastCall'.response = "success"
                /\ KnownValid(env2, a, b)
                /\ ~ KnownInvalid(env2, a, b)
                /\ SeqToSet(env2.table) = Owned(sid) \cup produced
                /\ logs[Len(logs)].Success
                /\ logs[Len(logs)].Result_Element # None]_vars

C26_CaseInsensitive ==
    [][\A sid \in SessionIds :
          (/\ MoveOn(sid)
           /\ sid \in Registered
           /\ ~ game_sessions[sid].done
           /\ lastCall'.raised = "no")
          => LET a    == Denotes(lastCall'.typed[1])
                 b    == Denotes(lastCall'.typed[2])
                 env  == game_sessions[sid].env
                 old  == IF sid \in DOMAIN attempt_logs THEN attempt_logs[sid] ELSE <<>>
                 logs == attempt_logs'[sid]
             IN /\ lastCall'.item1 = a
                /\ lastCall'.item2 = b
                /\ (lastCall'.response = "not_in_inventory") = ~ ({a, b} \subseteq Owned(sid))
                /\ {a, b} \subseteq Owned(sid)
                   => /\ (lastCall'.response = "repeat_valid") = KnownValid(env, a, b)
                      /\ (lastCall'.response = "repeat_invalid") = KnownInvalid(env, a, b)
                      /\ Len(logs) = Len(old) + 1
                      /\ PairOf(logs[Len(logs)]) = {a, b}
                      /\ logs[Len(logs)].Is_Novel_Combination = (~ \E j \in 1..Len(old) : PairOf(old[j]) = {a, b})]_vars

\* a pair first tried as "air" and "fire" has just been tried again as " Fire"
\* and "air": the call was accepted, answered as a repeat and logged as not
\* novel
C26_Witness ==
    /\ lastCall.tool = "make_move"
    /\ lastCall.typed = <<" Fire", "air">>
    /\ lastCall.response = "repeat_valid"
    /\ lastCall.session_id \in DOMAIN attempt_logs
    /\ LET logs == attempt_logs[lastCall.session_id]
       IN /\ Len(logs) = 2
          /\ logs[1].Element_1 = "air"
          /\ logs[1].Element_2 = "fire"
          /\ ~ logs[2].Is_Novel_Combination

\* C27: a self-pair (a, a) of an owned item is accepted like any other pair,
\* and a resolved pair touches only its own ledger entry and novelty status:
\* after an accepted move on {a, b}, every other pair of owned items is in the
\* ledger, and novel, exactly as before.  In particular resolving (a, a)
\* never makes (a, b), b # a, a Repeat or non-novel, nor the other way round.
C27_SelfPairDistinct ==
    [][\A sid \in SessionIds :
          (/\ MoveOn(sid)
           /\ MovePreconditions(sid)
           /\ lastCall'.raised = "no")
          => LET a    == lastCall'.item1
                 b    == lastCall'.item2
                 env  == game_sessions[sid].env
                 env2 == game_sessions'[sid].env
                 old  == IF sid \in DOMAIN attempt_logs THEN attempt_logs[sid] ELSE <<>>
                 logs == attempt_logs'[sid]
             IN /\ lastCall'.response \in AcceptedResponses
                /\ \A x, y \in Owned(sid) :
                      ({x, y} # {a, b})
                      => /\ LedgerLookup(env2, x, y) = LedgerLookup(env, x, y)
                         /\ KnownValid(env2, x, y) = KnownValid(env, x, y)
                         /\ KnownInvalid(env2, x, y) = KnownInvalid(env, x, y)
                         /\ IsNovelCombination(logs, x, y) = IsNovelCombination(old, x, y)]_vars

\* the self-pair (air, air) was resolved first, then (air, fire): the second
\* attempt went to the resolver and was logged as novel
C27_Witness ==
    /\ lastCall.tool = "make_move"
    /\ lastCall.env_steps = 1
    /\ lastCall.session_id \in DOMAIN attempt_logs
    /\ LET logs == attempt_logs[lastCall.session_id]
       IN /\ Len(logs) = 2
          /\ PairOf(logs[1]) = {"air"}
          /\ PairOf(logs[2]) = {"air", "fire"}
          /\ logs[1].Is_Novel_Combination
          /\ logs[2].Is_Novel_Combination
          /\ logs[2].Success

\* C29: an open-ended session is done exactly when the rounds it has consumed
\* have reached its round budget; while rounds remain no move ends it.
C29_OpenEndedDoneIffExhausted ==
    \A sid \in Registered :
        ~ game_sessions[sid].targeted
        => (game_sessions[sid].done <=> game_sessions[sid].rounds_played >= game_sessions[sid].max_rounds)

\* an open-ended session has just made a discovery with a round left and is
\* still active
C29_Witness ==
    /\ lastCall.tool = "make_move"
    /\ lastCall.response = "success"
    /\ lastCall.session_id \in Registered
    /\ LET session == game_sessions[lastCall.session_id]
       IN /\ ~ session.targeted
          /\ session.rounds_played = 1
          /\ session.rounds_played < session.max_rounds
          /\ ~ session.done

\* C30: sessions are isolated under interleaving.  A call changes nothing of
\* any session other than the one it names: such a session stays registered
\* or unregistered, keeps its inventory, ledger, rounds and done flag, and
\* keeps its attempt log as it was.  What the call writes about its own
\* session comes from that session alone: the entry an accepted move appends
\* carries the session's id and is numbered, flagged for novelty and given
\* its streak from that session's own log.
C30_SessionIsolation ==
    [][/\ \A sid \in SessionIds :
             sid # lastCall'.session_id
             => /\ (sid \in DOMAIN game_sessions') = (sid \in Registered)
                /\ sid \in Registered => game_sessions'[sid] = game_sessions[sid]
                /\ (sid \in DOMAIN attempt_logs') = (sid \in DOMAIN attempt_logs)
                /\ sid \in DOMAIN attempt_logs => attempt_logs'[sid] = attempt_logs[sid]
       /\ \A sid \in SessionIds :
             (MoveOn(sid) /\ lastCall'.response \in AcceptedResponses)
             => LET old   == IF sid \in DOMAIN attempt_logs THEN attempt_logs[sid] ELSE <<>>
                    logs  == attempt_logs'[sid]
                    entry == logs[Len(logs)]
                IN /\ logs = Append(old, entry)
                   /\ entry.Session_ID = sid
                   /\ entry.Attempt_Number = Len(old) + 1
                   /\ entry.Is_Novel_Combination = (~ \E j \in 1..Len(old) : PairOf(old[j]) = PairOf(entry))
                   /\ entry.Current_Streak_Length = RunEndingAt(old, Len(old)).length
                   /\ entry.Inventory_Size_Before = Cardinality(Owned(sid))]_vars

\* two sessions have played in turn and differ: the one that moved last has
\* two log entries, the other has one and owns a different inventory
C30_Witness ==
    /\ lastCall.tool = "make_move"
    /\ Registered = SessionIds
    /\ DOMAIN attempt_logs = SessionIds
    /\ \E other \in SessionIds :
          /\ other # lastCall.session_id
          /\ Len(attempt_logs[lastCall.session_id]) = 2
          /\ Len(attempt_logs[other]) = 1
          /\ attempt_logs[lastCall.session_id][2].Attempt_Number = 2
          /\ Owned(other) # Owned(lastCall.session_id)

\* C31: get_game_state, list_active_sessions, get_attempt_logs (in every
\* format) and debug_logging_status are reads: they leave the registry, every
\* session's inventory, ledger, rounds and done flag, and every attempt log
\* as they were.  What get_attempt_logs answers is computed from the log as
\* it is at the call: the summary's total, successes and failures count the
\* log's entries and it shows the last five of them, json and csv show all.
C31_ReadsChangeNothing ==
    [][lastCall'.tool \in {"get_game_state", "list_active_sessions", "get_attempt_logs", "debug_logging_status"}
       => /\ game_sessions' = game_sessions
          /\ attempt_logs' = attempt_logs
          /\ (lastCall'.tool = "get_attempt_logs" /\ lastCall'.response = "logs")
             => LET logs == attempt_logs[lastCall'.session_id]
                    n    == Len(logs)
                IN IF lastCall'.format = "summary"
                   THEN /\ lastCall'.summary = <<n, Cardinality(Successes(logs)), n - Cardinality(Successes(logs))>>
                        /\ Len(lastCall'.shown) = (IF n < 5 THEN n ELSE 5)
                        /\ \A k \in 1..Len(lastCall'.shown) : lastCall'.shown[k] = logs[n - Len(lastCall'.shown) + k]
                   ELSE lastCall'.shown = logs]_vars

\* a summary has just been given of a log of six entries, successes and
\* failures among them: it shows entries 2 to 6, and the log is whole
C31_Witness ==
    /\ lastCall.tool = "get_attempt_logs"
    /\ lastCall.format = "summary"
    /\ lastCall.summary = <<6, 1, 5>>
    /\ lastCall.shown[1].Attempt_Number = 2
    /\ Len(attempt_logs[lastCall.session_id]) = 6

\* C32: make_move checks its preconditions in one order and reports the first
\* that fails only: an unknown session, then a session that is done, then a
\* first item that is not owned, then a second item that is not owned.  A
\* move on a done session naming an item it does not own is answered
\* "already ended"; when neither item is owned the first is the one reported.
C32_PreconditionOrder ==
    [][\A sid \in SessionIds :
          MoveOn(sid)
          => IF sid \notin Registered
             THEN lastCall'.response = "not_found"
             ELSE IF game_sessions[sid].done
             THEN lastCall'.response = "already_ended"
             ELSE IF lastCall'.item1 \notin Owned(sid)
             THEN lastCall'.response = "not_in_inventory" /\ lastCall'.item = lastCall'.item1
             ELSE IF lastCall'.item2 \notin Owned(sid)
             THEN lastCall'.response = "not_in_inventory" /\ lastCall'.item = lastCall'.item2
             ELSE lastCall'.response \notin {"not_found", "already_ended", "not_in_inventory"}]_vars

\* a done session was asked to combine an item it does not own with one it
\* owns, and answered that the game has ended
C32_Witness ==
    /\ lastCall.tool = "make_move"
    /\ lastCall.response = "already_ended"
    /\ lastCall.session_id \in Registered
    /\ game_sessions[lastCall.session_id].done
    /\ lastCall.item1 \notin Owned(lastCall.session_id)
    /\ lastCall.item2 \in Owned(lastCall.session_id)

C34_Terminates ==
    /\ [](\A sid \in Registered :
             /\ game_sessions[sid].rounds_played <= game_sessions[sid].max_rounds
             /\ Len(LogsOf(sid)) <= game_sessions[sid].max_rounds
             /\ game_sessions[sid].rounds_played >= game_sessions[sid].max_rounds => game_sessions[sid].done)
    /\ \A sid \in SessionIds :
          (sid \in Registered) ~> (sid \notin Registered \/ game_sessions[sid].done)

\* an open-ended session is done after as many attempts as its budget, more
\* than one, the last of them a repeat
C34_Witness ==
    /\ lastCall.tool = "make_move"
    /\ lastCall.response \in {"repeat_valid", "repeat_invalid"}
    /\ lastCall.session_id \in Registered
    /\ LET session == game_sessions[lastCall.session_id]
       IN /\ ~ session.targeted
          /\ session.done
          /\ session.max_rounds > 1
          /\ session.rounds_played = session.max_rounds
          /\ Len(attempt_logs[lastCall.session_id]) = session.max_rounds

\* C35: every session id that has an attempt log is a registered session:
\* a log neither precedes nor outlives its session.
C35_LogsBelongToSessions ==
    DOMAIN attempt_logs \subseteq DOMAIN game_sessions

\* one session has been ended after playing and is gone with its log, while
\* the other is registered and has a log
C35_Witness ==
    /\ lastCall.tool = "end_game"
    /\ lastCall.response = "ended"
    /\ lastCall.session_id \notin DOMAIN attempt_logs
    /\ \E other \in Registered : other \in DOMAIN attempt_logs /\ Len(attempt_logs[other]) = 2

\* C36: a registered session's rounds_played equals the number of entries in
\* its attempt log: an accepted make_move adds one round and one entry, a
\* rejected or failed call adds neither.
C36_RoundsEqualLogLength ==
    \A sid \in Registered : game_sessions[sid].rounds_played = Len(LogsOf(sid))

\* C37: the attempt log and the ledger agree on repeats.  An accepted
\* make_move is answered as a Repeat exactly when its log entry is flagged
\* not novel, and the unordered pairs the session's log holds are the pairs
\* its ledger holds, valid or invalid.
C37_LogAndLedgerAgree ==
    [][\A sid \in SessionIds :
          (MoveOn(sid) /\ lastCall'.response \in AcceptedResponses)
          => LET logs  == attempt_logs'[sid]
                 entry == logs[Len(logs)]
                 env2  == game_sessions'[sid].env
             IN /\ (lastCall'.response \in {"repeat_valid", "repeat_invalid"}) = ~ entry.Is_Novel_Combination
                /\ {PairOf(logs[k]) : k \in 1..Len(logs)} = {v.pair : v \in ValidPairs(env2)} \cup InvalidPairs(env2)]_vars

\* C38: a log entry's Success flag agrees with the ledger: an entry has
\* Success = TRUE exactly when its pair is recorded valid in the session's
\* ledger, so all entries of one session for one unordered pair, the first
\* attempt and every repeat, carry the same Success value.
C38_SuccessAgreesWithLedger ==
    \A sid \in Registered :
        LET logs == LogsOf(sid)
            env  == game_sessions[sid].env
        IN /\ \A k \in 1..Len(logs) : logs[k].Success = KnownValid(env, logs[k].Element_1, logs[k].Element_2)
           /\ \A j, k \in 1..Len(logs) : PairOf(logs[j]) = PairOf(logs[k]) => logs[j].Success = logs[k].Success

\* C39: a start_game that does not answer with the new game leaves the
\* registry as it was, and when it answers with an error no session is
\* registered under the id, which can therefore be started again.
C39_FailedStartRegistersNothing ==
    [][\A sid \in SessionIds :
          (/\ lastCall'.tool = "start_game"
           /\ lastCall'.session_id = sid
           /\ lastCall'.response # "new_game")
          => /\ game_sessions' = game_sessions
             /\ lastCall'.response = "error" => sid \notin DOMAIN game_sessions']_vars

\* C40: a session started again under the id of an ended session inherits
\* nothing from it.  After end_game the id holds no session and no log, so
\* start_game is accepted and, whatever was played before, every session's
\* first accepted attempt is made from the base inventory with an empty
\* ledger and is logged as attempt 1, novel, with no streak and no last
\* success.
C40_RestartIsFresh ==
    [][\A sid \in SessionIds :
          /\ (lastCall'.tool = "end_game" /\ lastCall'.session_id = sid /\ lastCall'.response = "ended")
             => /\ sid \notin DOMAIN game_sessions'
                /\ sid \notin DOMAIN attempt_logs'
          /\ (lastCall'.tool = "start_game" /\ lastCall'.session_id = sid /\ sid \notin Registered)
             => /\ lastCall'.response # "already_exists"
                /\ lastCall'.response = "new_game"
                   => /\ game_sessions'[sid].rounds_played = 0
                      /\ ~ game_sessions'[sid].done
                      /\ game_sessions'[sid].env.table = BaseInventory
                      /\ ValidPairs(game_sessions'[sid].env) \cup InvalidPairs(game_sessions'[sid].env) = {}
                      /\ sid \notin DOMAIN attempt_logs'
          /\ (MoveOn(sid) /\ lastCall'.response \in AcceptedResponses /\ game_sessions[sid].rounds_played = 0)
             => LET logs  == attempt_logs'[sid]
                    entry == logs[1]
                IN /\ Len(logs) = 1
                   /\ entry.Attempt_Number = 1
                   /\ entry.Is_Novel_Combination
                   /\ entry.Current_Streak_Type = "none"
                   /\ entry.Current_Streak_Length = 0
                   /\ entry.Time_Since_Last_Success = <<>>
                   /\ entry.Inventory_Size_Before = Len(BaseInventory)
                   /\ lastCall'.response \notin {"repeat_valid", "repeat_invalid"}]_vars

\* a session has just logged its first attempt after the clock has moved on
\* (sessions played and ended under the id before leave no trace to see):
\* attempt 1, novel, no streak, no last success
C40_Witness ==
    /\ lastCall.tool = "make_move"
    /\ now > 0
    /\ lastCall.session_id \in Registered
    /\ game_sessions[lastCall.session_id].rounds_played = 1
    /\ LET logs == attempt_logs[lastCall.session_id]
       IN /\ Len(logs) = 1
          /\ logs[1]._timestamp > 0
          /\ logs[1].Attempt_Number = 1
          /\ logs[1].Time_Since_Last_Success = <<>>

=========================================================================
